---- MODULE Spec2Model ----
(***************************************************************************)
(* Scheduled message dispatch: the polling engine of scheduler.py over the *)
(* store of database.py, and the job-queue engine of telegram_bot.py.      *)
(*                                                                         *)
(* Time is an absolute instant counted in units; a wall-clock minute is    *)
(* UnitsPerMinute units long, so that two clock samples of the same minute *)
(* can be told apart.  The calendar is scaled down (MinutesPerHour minutes *)
(* to the hour, HoursPerDay hours to the day) to keep whole days within    *)
(* reach; instant 0 is 2024-01-01T00:00Z, a Monday.                        *)
(***************************************************************************)
EXTENDS Integers, Sequences, FiniteSets, TLC

VARIABLES
    now,                 \* the wall clock: absolute instant, in units
    groups,              \* database.py, table groups: chat_id -> timezone
    scheduled_messages,  \* database.py, table scheduled_messages: row id -> row
    running,             \* MessageScheduler.running
    next_run,            \* next_run of the tick job of the scheduler thread, or NoJob
    ret,                 \* what the last call into scheduler.py returned
    dueLog,              \* per (id, date, hour, minute): times _should_send_message was true
    last_tick,           \* instant of the latest tick of the current uninterrupted run, or NoJob
    last_snapshot,       \* ids of the rows that tick read from the store
    scheduler_threads,   \* number of live threads executing _run_scheduler
    schedule_jobs,       \* number of jobs registered with the schedule module
    schedules,           \* telegram_bot.py, table schedules: id -> row
    schedules_seq,       \* telegram_bot.py, AUTOINCREMENT counter of schedules
    chat_timezones,      \* telegram_bot.py, table chat_timezones
    active_jobs,         \* SchedulerBot.active_jobs: schedule id -> Job
    job_queue,           \* the jobs held by app.job_queue
    phase,               \* "constructed" after __init__ ("failed" when it raised), "running" once run() polls
    fired,               \* names of the jobs the queue has run in the current minute
    reply,               \* how the last handler or callback ended: its reply, "returned" or "raised"
    issued,              \* every id an INSERT INTO schedules has returned so far
    sent                 \* the latest MaxSent calls of bot.send_message, in order

sched_vars == <<groups, scheduled_messages, running, next_run, ret, dueLog, last_tick, last_snapshot,
                scheduler_threads, schedule_jobs>>
tg_vars == <<schedules, schedules_seq, chat_timezones, active_jobs, job_queue, phase, fired, reply,
             issued>>
vars == <<now, sched_vars, tg_vars, sent>>

----------------------------------------------------------------------------
(* Bounds of the model *)

UnitsPerMinute == 2
MinutesPerHour == 2
HoursPerDay == 2
MaxDay == 2
MaxLatency == 1
MaxRows == 2
MaxChat == 2
MaxSent == 1
MaxLive == 1
MaxThreads == 2

MinuteLen == UnitsPerMinute
HourLen == MinutesPerHour * MinuteLen
DayLen == HoursPerDay * HourLen
MaxTime == MaxDay * DayLen
ChatIds == 1..MaxChat
NoJob == 0 - 1

----------------------------------------------------------------------------
(* Time zones and the calendar (pytz, datetime) *)

Zones == {"UTC", "Europe/London"}

\* Daylight saving time ends in Europe/London at this instant: the local
\* clock is set back one hour, from UTC+1 to UTC+0.
FallBackAt == DayLen

utcoffset(tz, t) == IF tz = "Europe/London" /\ t < FallBackAt THEN HourLen ELSE 0

\* The local wall-clock reading, in units since local 2024-01-01T00:00.
astimezone(t, tz) == t + utcoffset(tz, t)

local_date(l) == l \div DayLen
local_hour(l) == (l % DayLen) \div HourLen
local_minute(l) == (l % HourLen) \div MinuteLen
minute_index(t) == t \div MinuteLen

Pad2(n) == IF n < 10 THEN "0" \o ToString(n) ELSE ToString(n)
Weekdays == <<"Monday", "Tuesday", "Wednesday", "Thursday", "Friday", "Saturday", "Sunday">>
strftime_date(l) == "2024-01-" \o Pad2(local_date(l) + 1)
strftime_time(l) == Pad2(local_hour(l)) \o ":" \o Pad2(local_minute(l))
strftime_day(l) == Weekdays[(local_date(l) % 7) + 1]
strftime_month(l) == "January"
strftime_year(l) == "2024"
date_text(d) == "2024-01-" \o Pad2(d + 1)

----------------------------------------------------------------------------
(* Text: a string is a sequence of chunks, one per character; a formatted  *)
(* value (a date, a weekday name, a number) is a single chunk.             *)

TokDate == <<"{", "d", "a", "t", "e", "}">>
TokTime == <<"{", "t", "i", "m", "e", "}">>
TokDay == <<"{", "d", "a", "y", "}">>
TokMonth == <<"{", "m", "o", "n", "t", "h", "}">>
TokYear == <<"{", "y", "e", "a", "r", "}">>

\* str.replace: every non-overlapping occurrence of key, left to right.
RECURSIVE str_replace(_, _, _)
str_replace(s, key, val) ==
    IF Len(s) < Len(key) THEN s
    ELSE IF SubSeq(s, 1, Len(key)) = key
         THEN val \o str_replace(SubSeq(s, Len(key) + 1, Len(s)), key, val)
         ELSE <<Head(s)>> \o str_replace(Tail(s), key, val)

\* Time strings "H:M" and date strings: wf says whether the text has the
\* form at all; the numbers are what int() reads from its parts.
TimeStr(h, m) == [wf |-> TRUE, h |-> h, m |-> m]
BadTimeStr == [wf |-> FALSE, h |-> 0, m |-> 0]
DateStr(d) == [wf |-> TRUE, d |-> d]
BadDateStr == [wf |-> FALSE, d |-> 0]
NoneDate == [wf |-> FALSE, d |-> 0 - 1]
NoneText == <<>>
EmptyMap == [x \in {} |-> 0]

\* The log of send_message calls after one more call.
log_sent(call) == IF Len(sent) < MaxSent THEN Append(sent, call) ELSE Append(Tail(sent), call)

----------------------------------------------------------------------------
(* database.py: BotDatabase *)

\* Faulty variant of get_scheduled_messages: no WHERE sm.is_active = 1.
get_scheduled_messages_with_removed(chat_id) ==
    LET visible(i) ==
            /\ scheduled_messages[i].chat_id \in DOMAIN groups
            /\ (chat_id # 0 => scheduled_messages[i].chat_id = chat_id)
    IN  SelectSeq([i \in 1..Len(scheduled_messages) |-> i], visible)

\* The rows a SELECT over scheduled_messages JOIN groups yields, as ids in
\* rowid order.  A chat_id of 0 stands for the falsy argument (None or 0).
get_scheduled_messages(chat_id) ==
    LET visible(i) ==
            /\ scheduled_messages[i].is_active
            /\ scheduled_messages[i].chat_id \in DOMAIN groups
            /\ (chat_id # 0 => scheduled_messages[i].chat_id = chat_id)
    IN  SelectSeq([i \in 1..Len(scheduled_messages) |-> i], visible)

\* The joined row: the columns of scheduled_messages plus g.timezone.
msg_config(id) ==
    [row |-> scheduled_messages[id], timezone |-> groups[scheduled_messages[id].chat_id]]

add_scheduled_message(chat_id, message_type, schedule_time, message_template, target_date, title) ==
    scheduled_messages' = Append(scheduled_messages,
        [chat_id |-> chat_id, message_type |-> message_type,
         schedule_time |-> schedule_time, message_template |-> message_template,
         target_date |-> target_date, title |-> title, is_active |-> TRUE])

\* UPDATE ... SET is_active = 0 WHERE id = ? AND chat_id = ?: the rows the
\* WHERE clause matches are the rows counted by cursor.rowcount.
remove_matched(message_id, chat_id) ==
    {i \in 1..Len(scheduled_messages) :
        i = message_id /\ scheduled_messages[i].chat_id = chat_id}

remove_scheduled_message(message_id, chat_id) ==
    /\ scheduled_messages' =
          [i \in 1..Len(scheduled_messages) |->
              IF i \in remove_matched(message_id, chat_id)
              THEN [scheduled_messages[i] EXCEPT !.is_active = FALSE]
              ELSE scheduled_messages[i]]
    /\ ret' = [op |-> "remove_schedule",
               val |-> Cardinality(remove_matched(message_id, chat_id)) > 0]

get_group_timezone(chat_id) == IF chat_id \in DOMAIN groups THEN groups[chat_id] ELSE "UTC"

\* Faulty variant of add_group: INSERT OR IGNORE, an existing row is kept.
add_group_keeps_existing(chat_id, timezone) ==
    /\ groups' = groups @@ (chat_id :> timezone)
    /\ ret' = [op |-> "add_group", val |-> TRUE]
    /\ UNCHANGED <<now, scheduled_messages, running, next_run, dueLog, last_tick, last_snapshot,
                   tg_vars, sent, scheduler_threads, schedule_jobs>>

\* INSERT OR REPLACE INTO groups (chat_id, group_name, timezone)
add_group(chat_id, timezone) ==
    /\ groups' = (chat_id :> timezone) @@ groups
    /\ ret' = [op |-> "add_group", val |-> TRUE]
    /\ UNCHANGED <<now, scheduled_messages, running, next_run, dueLog, last_tick, last_snapshot,
                   tg_vars, sent, scheduler_threads, schedule_jobs>>

\* UPDATE groups SET timezone = ? WHERE chat_id = ?; returns rowcount > 0.
update_group_timezone(chat_id, timezone) ==
    /\ groups' = [c \in DOMAIN groups |-> IF c = chat_id THEN timezone ELSE groups[c]]
    /\ ret' = [op |-> "update_group_timezone", val |-> chat_id \in DOMAIN groups]
    /\ UNCHANGED <<now, scheduled_messages, running, next_run, dueLog, last_tick, last_snapshot,
                   tg_vars, sent, scheduler_threads, schedule_jobs>>

\* A call of get_group_timezone, as the command handlers of bot.py make it.
read_group_timezone(chat_id) ==
    /\ ret' = [op |-> "get_group_timezone", val |-> TRUE, timezone |-> get_group_timezone(chat_id)]
    /\ UNCHANGED <<now, groups, scheduled_messages, running, next_run, dueLog, last_tick,
                   last_snapshot, tg_vars, sent, scheduler_threads, schedule_jobs>>

----------------------------------------------------------------------------
(* scheduler.py: MessageScheduler *)

\* datetime.strptime(time_str, '%H:%M') and (date, '%Y-%m-%d') succeed.
strptime_time_ok(s) == s.wf /\ s.h >= 0 /\ s.h < HoursPerDay /\ s.m >= 0 /\ s.m < MinutesPerHour
strptime_date_ok(s) == s.wf /\ s.d >= 0

\* Faulty variant of _should_send_message: a time of day that has passed
\* earlier today counts as due as well.
should_send_message_or_missed(cfg, current_time) ==
    LET local_time == astimezone(current_time, cfg.timezone)
    IN  /\ cfg.row.schedule_time.wf
        /\ local_hour(local_time) * MinutesPerHour + local_minute(local_time)
               >= cfg.row.schedule_time.h * MinutesPerHour + cfg.row.schedule_time.m

should_send_message(cfg, current_time) ==
    LET local_time == astimezone(current_time, cfg.timezone)
    IN  /\ cfg.row.schedule_time.wf
        /\ local_hour(local_time) = cfg.row.schedule_time.h
        /\ local_minute(local_time) = cfg.row.schedule_time.m

\* Faulty variant of _format_daily_message: the {year} line is missing.
format_daily_message_without_year(cfg, t) ==
    LET local_time == astimezone(t, cfg.timezone)
        m1 == str_replace(cfg.row.message_template, TokDate, <<strftime_date(local_time)>>)
        m2 == str_replace(m1, TokTime, <<strftime_time(local_time)>>)
        m3 == str_replace(m2, TokDay, <<strftime_day(local_time)>>)
    IN  str_replace(m3, TokMonth, <<strftime_month(local_time)>>)

format_daily_message(cfg, t) ==
    LET local_time == astimezone(t, cfg.timezone)
        m1 == str_replace(cfg.row.message_template, TokDate, <<strftime_date(local_time)>>)
        m2 == str_replace(m1, TokTime, <<strftime_time(local_time)>>)
        m3 == str_replace(m2, TokDay, <<strftime_day(local_time)>>)
        m4 == str_replace(m3, TokMonth, <<strftime_month(local_time)>>)
    IN  str_replace(m4, TokYear, <<strftime_year(local_time)>>)

\* (target_date - current_time).days: target_date is midnight of the target
\* day, current_time the naive local reading; timedelta.days rounds down.
days_remaining(target_date, t, tz) == (target_date.d * DayLen - astimezone(t, tz)) \div DayLen

format_countdown_message(cfg, t) ==
    LET days == days_remaining(cfg.row.target_date, t, cfg.timezone)
    IN  IF days > 0
        THEN cfg.row.title \o <<ToString(days), " days remaining!", "Target Date: ", date_text(cfg.row.target_date.d)>>
        ELSE IF days = 0
        THEN cfg.row.title \o <<"TODAY IS THE DAY!">>
        ELSE cfg.row.title \o <<"Event completed ", ToString(0 - days), " days ago", date_text(cfg.row.target_date.d)>>

\* The key under which an evaluation of a row at an instant is logged.
due_key(id, t) ==
    LET l == astimezone(t, msg_config(id).timezone)
    IN  <<id, local_date(l), local_hour(l), local_minute(l)>>

log_due(log, key) ==
    IF key \in DOMAIN log THEN [log EXCEPT ![key] = @ + 1] ELSE log @@ (key :> 1)

\* Faulty variant of start(): no test of self.running, so every call creates
\* a thread, and each thread clears the jobs and registers its own.
start_unguarded ==
    /\ scheduler_threads < MaxThreads
    /\ running' = TRUE
    /\ scheduler_threads' = scheduler_threads + 1
    /\ schedule_jobs' = 1
    /\ next_run' = now + MinuteLen
    /\ last_tick' = NoJob
    /\ last_snapshot' = {}
    /\ UNCHANGED <<now, groups, scheduled_messages, ret, dueLog, tg_vars, sent>>

\* start(): if not self.running, the flag is set and a thread is created on
\* _run_scheduler, which does schedule.clear() and registers the tick job.
start ==
    /\ ~running
    /\ running' = TRUE
    /\ scheduler_threads' = scheduler_threads + 1
    /\ schedule_jobs' = 1
    /\ next_run' = now + MinuteLen
    /\ last_tick' = NoJob
    /\ last_snapshot' = {}
    /\ UNCHANGED <<now, groups, scheduled_messages, ret, dueLog, tg_vars, sent>>

\* Faulty variant of stop(): the running flag is left set, so the thread
\* stays in its loop.
stop_keeps_running ==
    /\ running
    /\ last_tick' = NoJob
    /\ last_snapshot' = {}
    /\ UNCHANGED <<now, groups, scheduled_messages, running, next_run, ret, dueLog, tg_vars, sent,
                   scheduler_threads, schedule_jobs>>

\* stop(): the flag is cleared and the thread is joined: every loop on
\* self.running has ended when stop() returns.  The job stays registered
\* with the schedule module, where no thread runs it.
stop ==
    /\ running' = FALSE
    /\ scheduler_threads' = 0
    /\ next_run' = NoJob
    /\ last_tick' = NoJob
    /\ last_snapshot' = {}
    /\ UNCHANGED <<now, groups, scheduled_messages, ret, dueLog, tg_vars, sent, schedule_jobs>>

\* The process is killed and started again: bot.py's run() calls start().
process_restart ==
    /\ running' = TRUE
    /\ scheduler_threads' = 1
    /\ schedule_jobs' = 1
    /\ next_run' = now + MinuteLen
    /\ last_tick' = NoJob
    /\ last_snapshot' = {}
    /\ UNCHANGED <<now, groups, scheduled_messages, ret, dueLog, tg_vars, sent>>

\* Faulty variant of the tick: neither get_scheduled_messages nor the tick
\* catches the failure of the SELECT, and the exception ends the thread.
run_tick_read_failure_fatal(readable) ==
    /\ running
    /\ next_run # NoJob
    /\ now >= next_run
    /\ LET snapshot == IF readable THEN get_scheduled_messages(0) ELSE <<>>
           due == {k \in 1..Len(snapshot) : should_send_message(msg_config(snapshot[k]), now)}
           first == CHOOSE k \in due : \A j \in due : k <= j
       IN  /\ dueLog' = IF due = {} THEN dueLog ELSE log_due(dueLog, due_key(snapshot[first], now))
           /\ last_snapshot' = {snapshot[k] : k \in 1..Len(snapshot)}
    /\ last_tick' = now
    /\ next_run' = IF readable THEN now + MinuteLen ELSE NoJob
    /\ UNCHANGED <<now, groups, scheduled_messages, running, ret, tg_vars, sent,
                   scheduler_threads, schedule_jobs>>

\* One run of the tick job.  readable says whether the SELECT of
\* get_scheduled_messages succeeds; when it fails the function logs the
\* error and returns [].  asyncio.create_task is called in the scheduler
\* thread, which runs no event loop: it raises RuntimeError at the first due
\* row, the except clause of _check_and_send_messages ends the pass, and
\* nothing is sent.
run_tick(readable) ==
    /\ running
    /\ next_run # NoJob
    /\ now >= next_run
    /\ LET snapshot == IF readable THEN get_scheduled_messages(0) ELSE <<>>
           due == {k \in 1..Len(snapshot) : should_send_message(msg_config(snapshot[k]), now)}
           first == CHOOSE k \in due : \A j \in due : k <= j
       IN  /\ dueLog' = IF due = {} THEN dueLog ELSE log_due(dueLog, due_key(snapshot[first], now))
           /\ last_snapshot' = {snapshot[k] : k \in 1..Len(snapshot)}
    /\ last_tick' = now
    /\ next_run' = now + MinuteLen
    /\ UNCHANGED <<now, groups, scheduled_messages, running, ret, tg_vars, sent,
                   scheduler_threads, schedule_jobs>>

check_and_send_messages == \E readable \in BOOLEAN : run_tick(readable)

\* _check_and_send_messages statement by statement, for the handlers that
\* write the database from the event loop while the scheduler thread is
\* inside it.  The job's next run is set when the job function has returned,
\* so the thread is inside the tick while next_run is not past last_tick.
in_tick == last_tick # NoJob /\ next_run # NoJob /\ next_run <= last_tick

\* scheduled_messages = self.db.get_scheduled_messages(); current_time = datetime.now()
tick_snapshot ==
    /\ running
    /\ next_run # NoJob
    /\ now >= next_run
    /\ ~in_tick
    /\ last_snapshot' = {get_scheduled_messages(0)[k] : k \in 1..Len(get_scheduled_messages(0))}
    /\ last_tick' = now
    /\ UNCHANGED <<now, groups, scheduled_messages, running, next_run, ret, dueLog, tg_vars, sent,
                   scheduler_threads, schedule_jobs>>

\* The for loop over the snapshot, with current_time as read after it: the
\* first row found due is dispatched, which raises and ends the pass.
tick_evaluate ==
    /\ running
    /\ in_tick
    /\ LET due == {id \in last_snapshot : should_send_message(msg_config(id), last_tick)}
           first == CHOOSE id \in due : \A j \in due : id <= j
       IN  dueLog' = IF due = {} THEN dueLog ELSE log_due(dueLog, due_key(first, last_tick))
    /\ next_run' = now + MinuteLen
    /\ UNCHANGED <<now, groups, scheduled_messages, running, ret, last_tick, last_snapshot,
                   tg_vars, sent, scheduler_threads, schedule_jobs>>

\* The coroutine _send_scheduled_message, awaited for the joined row of id.
send_scheduled_message(id) ==
    /\ \E k \in 1..Len(get_scheduled_messages(0)) : get_scheduled_messages(0)[k] = id
    /\ LET cfg == msg_config(id)
           message == IF cfg.row.message_type = "daily" THEN format_daily_message(cfg, now)
                      ELSE IF cfg.row.message_type = "countdown" THEN format_countdown_message(cfg, now)
                      ELSE cfg.row.message_template
       IN  sent' = IF message # <<>>
                   THEN log_sent([chat_id |-> cfg.row.chat_id, text |-> message, id |-> id, at |-> now, ok |-> TRUE])
                   ELSE sent
    /\ UNCHANGED <<now, sched_vars, tg_vars>>

add_daily_message(chat_id, time_str, message) ==
    /\ IF strptime_time_ok(time_str)
       THEN /\ Len(scheduled_messages) < MaxRows
            /\ add_scheduled_message(chat_id, "daily", time_str, message, NoneDate, NoneText)
            /\ ret' = [op |-> "add_daily_message", val |-> TRUE]
       ELSE /\ ret' = [op |-> "add_daily_message", val |-> FALSE]
            /\ UNCHANGED scheduled_messages
    /\ UNCHANGED <<now, groups, running, next_run, dueLog, last_tick, last_snapshot, tg_vars, sent,
                   scheduler_threads, schedule_jobs>>

add_countdown_message(chat_id, time_str, target_date, title) ==
    /\ IF strptime_time_ok(time_str) /\ strptime_date_ok(target_date)
       THEN /\ Len(scheduled_messages) < MaxRows
            /\ add_scheduled_message(chat_id, "countdown", time_str, NoneText, target_date, title)
            /\ ret' = [op |-> "add_countdown_message", val |-> TRUE]
       ELSE /\ ret' = [op |-> "add_countdown_message", val |-> FALSE]
            /\ UNCHANGED scheduled_messages
    /\ UNCHANGED <<now, groups, running, next_run, dueLog, last_tick, last_snapshot, tg_vars, sent,
                   scheduler_threads, schedule_jobs>>

remove_schedule(message_id, chat_id) ==
    /\ remove_scheduled_message(message_id, chat_id)
    /\ UNCHANGED <<now, groups, running, next_run, dueLog, last_tick, last_snapshot, tg_vars, sent,
                   scheduler_threads, schedule_jobs>>

----------------------------------------------------------------------------
(* telegram_bot.py: SchedulerBot *)

\* Faulty variant of parse_hhmm: the range test lets the hour 24 through.
parse_hhmm_hour_inclusive(hhmm) ==
    IF hhmm.wf /\ 0 <= hhmm.h /\ hhmm.h <= HoursPerDay /\ 0 <= hhmm.m /\ hhmm.m < MinutesPerHour
    THEN [ok |-> TRUE, hour |-> hhmm.h, minute |-> hhmm.m]
    ELSE [ok |-> FALSE, hour |-> 0, minute |-> 0]

parse_hhmm(hhmm) ==
    IF hhmm.wf /\ 0 <= hhmm.h /\ hhmm.h < HoursPerDay /\ 0 <= hhmm.m /\ hhmm.m < MinutesPerHour
    THEN [ok |-> TRUE, hour |-> hhmm.h, minute |-> hhmm.m]
    ELSE [ok |-> FALSE, hour |-> 0, minute |-> 0]

parse_date(datestr) ==
    IF datestr.wf /\ datestr.d >= 0
    THEN [ok |-> TRUE, date |-> datestr.d]
    ELSE [ok |-> FALSE, date |-> 0]

get_chat_timezone(chat_id) ==
    IF chat_id \in DOMAIN chat_timezones THEN chat_timezones[chat_id] ELSE "UTC"

ScheduleRecord(id, chat_id, schedule_type, time_str, end_date_str, message, timezone) ==
    [id |-> id, chat_id |-> chat_id, schedule_type |-> schedule_type, time_str |-> time_str,
     end_date_str |-> end_date_str, message |-> message, timezone |-> timezone]

row_of_record(rec) ==
    [chat_id |-> rec.chat_id, schedule_type |-> rec.schedule_type, time_str |-> rec.time_str,
     end_date_str |-> rec.end_date_str, message |-> rec.message, timezone |-> rec.timezone]

record_of_row(id) ==
    ScheduleRecord(id, schedules[id].chat_id, schedules[id].schedule_type, schedules[id].time_str,
                   schedules[id].end_date_str, schedules[id].message, schedules[id].timezone)

\* What _schedule_job makes of the registry reg = [active_jobs, job_queue]:
\* job_queue.run_daily(callback, time(hour, minute, tzinfo=tz), name, data).
\* Faulty variant of _schedule_job: the time of day is built without tzinfo,
\* so the job runs on the queue's default zone.
schedule_job_naive_time(reg, rec) ==
    LET t == parse_hhmm(rec.time_str)
        job == [name |-> "schedule_" \o ToString(rec.id), callback |-> rec.schedule_type,
                hour |-> t.hour, minute |-> t.minute, tz |-> "UTC", schedule_id |-> rec.id]
    IN  IF ~t.ok THEN reg
        ELSE IF rec.schedule_type \notin {"daily", "countdown", "repeating"} THEN reg
        ELSE [active_jobs |-> (rec.id :> job) @@ reg.active_jobs,
              job_queue |-> reg.job_queue \cup {job}]

\* tz = pytz.timezone(rec.timezone), the first statement of _schedule_job,
\* raises UnknownTimeZoneError for a name that is no timezone.
schedule_job_raises(rec) == rec.timezone \notin Zones

schedule_job(reg, rec) ==
    LET t == parse_hhmm(rec.time_str)
        job == [name |-> "schedule_" \o ToString(rec.id), callback |-> rec.schedule_type,
                hour |-> t.hour, minute |-> t.minute, tz |-> rec.timezone, schedule_id |-> rec.id]
    IN  IF schedule_job_raises(rec) THEN reg
        ELSE IF ~t.ok THEN reg
        ELSE IF rec.schedule_type \notin {"daily", "countdown", "repeating"} THEN reg
        ELSE [active_jobs |-> (rec.id :> job) @@ reg.active_jobs,
              job_queue |-> reg.job_queue \cup {job}]

\* _restore_schedules: _schedule_job for every row of the table, in rowid
\* order.  Nothing catches what _schedule_job raises: the loop ends there.
RECURSIVE restore_rows(_, _)
restore_rows(reg, ids) ==
    IF ids = {} THEN reg
    ELSE LET id == CHOOSE i \in ids : \A j \in ids : i <= j
         IN  IF schedule_job_raises(record_of_row(id)) THEN reg
             ELSE restore_rows(schedule_job(reg, record_of_row(id)), ids \ {id})

restore_schedules == restore_rows([active_jobs |-> EmptyMap, job_queue |-> {}], DOMAIN schedules)

\* The exception leaves _restore_schedules, run_until_complete and __init__.
restore_raises == \E id \in DOMAIN schedules : schedule_job_raises(record_of_row(id))

\* str.replace(key, value, 1): the first occurrence only.
str_replace_first(s, key, val) ==
    IF \E i \in 1..(Len(s) - Len(key) + 1) : SubSeq(s, i, i + Len(key) - 1) = key
    THEN LET i == CHOOSE i \in 1..(Len(s) - Len(key) + 1) :
                      /\ SubSeq(s, i, i + Len(key) - 1) = key
                      /\ \A j \in 1..(i - 1) : SubSeq(s, j, j + Len(key) - 1) # key
         IN  SubSeq(s, 1, i - 1) \o val \o SubSeq(s, i + Len(key), Len(s))
    ELSE s

\* Faulty variant of _apply_templates: each key is replaced once.
apply_templates_first_only(message, dt) ==
    LET r1 == str_replace_first(message, TokDate, <<strftime_date(dt)>>)
        r2 == str_replace_first(r1, TokTime, <<strftime_time(dt)>>)
        r3 == str_replace_first(r2, TokDay, <<strftime_day(dt)>>)
        r4 == str_replace_first(r3, TokMonth, <<strftime_month(dt)>>)
    IN  str_replace_first(r4, TokYear, <<strftime_year(dt)>>)

apply_templates(message, dt) ==
    LET r1 == str_replace(message, TokDate, <<strftime_date(dt)>>)
        r2 == str_replace(r1, TokTime, <<strftime_time(dt)>>)
        r3 == str_replace(r2, TokDay, <<strftime_day(dt)>>)
        r4 == str_replace(r3, TokMonth, <<strftime_month(dt)>>)
    IN  str_replace(r4, TokYear, <<strftime_year(dt)>>)

drop_key(f, k) == [x \in DOMAIN f \ {k} |-> f[x]]

\* Faulty variant of the removal: the row is deleted, the job is left alone.
delete_row_only(schedule_id) ==
    /\ schedules' = drop_key(schedules, schedule_id)
    /\ UNCHANGED <<active_jobs, job_queue>>

\* DELETE FROM schedules WHERE id = ?; active_jobs.pop(id); job.schedule_removal()
delete_and_deregister(schedule_id) ==
    /\ schedules' = drop_key(schedules, schedule_id)
    /\ active_jobs' = drop_key(active_jobs, schedule_id)
    /\ job_queue' = IF schedule_id \in DOMAIN active_jobs
                    THEN job_queue \ {active_jobs[schedule_id]}
                    ELSE job_queue

\* Faulty variant of _cancel_schedule: the job is removed, the row is kept.
cancel_schedule_keeps_row(schedule_id) ==
    /\ schedules' = schedules
    /\ active_jobs' = drop_key(active_jobs, schedule_id)
    /\ job_queue' = IF schedule_id \in DOMAIN active_jobs
                    THEN job_queue \ {active_jobs[schedule_id]}
                    ELSE job_queue

cancel_schedule(schedule_id) == delete_and_deregister(schedule_id)

\* SchedulerBot.__init__ in a fresh process over the persisted tables.
bot_restart ==
    /\ active_jobs' = restore_schedules.active_jobs
    /\ job_queue' = restore_schedules.job_queue
    /\ phase' = IF restore_raises THEN "failed" ELSE "constructed"
    /\ fired' = {}
    /\ reply' = "none"
    /\ UNCHANGED <<now, sched_vars, schedules, schedules_seq, chat_timezones, issued, sent>>

run ==
    /\ phase = "constructed"
    /\ phase' = "running"
    /\ UNCHANGED <<now, sched_vars, schedules, schedules_seq, chat_timezones, active_jobs,
                   job_queue, fired, reply, issued, sent>>

\* Faulty variant of the create path: the table is declared without
\* AUTOINCREMENT, so the new rowid is one more than the largest one present.
insert_reusing_rowid(chat_id, schedule_type, time_str, end_date_str, message, stored) ==
    LET largest == IF DOMAIN schedules = {} THEN 0
                   ELSE CHOOSE i \in DOMAIN schedules : \A j \in DOMAIN schedules : j <= i
        schedule_id == largest + 1
        rec == ScheduleRecord(schedule_id, chat_id, schedule_type, time_str, end_date_str,
                              message, get_chat_timezone(chat_id))
        reg == schedule_job([active_jobs |-> active_jobs, job_queue |-> job_queue], rec)
    IN  IF stored
        THEN /\ schedules' = (schedule_id :> row_of_record(rec)) @@ schedules
             /\ schedules_seq' = schedules_seq + 1
             /\ issued' = issued \cup {schedule_id}
             /\ active_jobs' = reg.active_jobs
             /\ job_queue' = reg.job_queue
             /\ reply' = "scheduled"
        ELSE /\ UNCHANGED <<schedules, schedules_seq, issued, active_jobs, job_queue>>
             /\ reply' = "raised"

\* Faulty variant of the create path: the job is registered first and the
\* row inserted second, so a failing INSERT leaves the job behind.
schedule_then_insert(chat_id, schedule_type, time_str, end_date_str, message, stored) ==
    LET schedule_id == schedules_seq + 1
        rec == ScheduleRecord(schedule_id, chat_id, schedule_type, time_str, end_date_str,
                              message, get_chat_timezone(chat_id))
        reg == schedule_job([active_jobs |-> active_jobs, job_queue |-> job_queue], rec)
    IN  /\ active_jobs' = reg.active_jobs
        /\ job_queue' = reg.job_queue
        /\ IF stored
           THEN /\ schedules' = (schedule_id :> row_of_record(rec)) @@ schedules
                /\ schedules_seq' = schedule_id
                /\ issued' = issued \cup {schedule_id}
                /\ reply' = "scheduled"
           ELSE /\ UNCHANGED <<schedules, schedules_seq, issued>>
                /\ reply' = "raised"

\* INSERT INTO schedules ...; conn.commit(); _schedule_job(rec).  stored says
\* whether the INSERT and its commit succeed; when they raise, the handler
\* is left through its finally clause and the exception escapes.
insert_and_schedule(chat_id, schedule_type, time_str, end_date_str, message, stored) ==
    LET schedule_id == schedules_seq + 1
        rec == ScheduleRecord(schedule_id, chat_id, schedule_type, time_str, end_date_str,
                              message, get_chat_timezone(chat_id))
        reg == schedule_job([active_jobs |-> active_jobs, job_queue |-> job_queue], rec)
    IN  IF stored
        THEN /\ schedules' = (schedule_id :> row_of_record(rec)) @@ schedules
             /\ schedules_seq' = schedule_id
             /\ issued' = issued \cup {schedule_id}
             /\ active_jobs' = reg.active_jobs
             /\ job_queue' = reg.job_queue
             /\ reply' = "scheduled"
        ELSE /\ UNCHANGED <<schedules, schedules_seq, issued, active_jobs, job_queue>>
             /\ reply' = "raised"

\* The reply to a malformed time or date: nothing else happens.
reject_invalid ==
    /\ reply' = "invalid"
    /\ UNCHANGED <<schedules, schedules_seq, issued, active_jobs, job_queue>>

\* The table has room for one more row (a bound of the model).
room_for_insert == schedules_seq < MaxRows /\ Cardinality(DOMAIN schedules) < MaxLive

setschedule(chat_id, time_str, message, stored) ==
    /\ phase = "running"
    /\ IF ~parse_hhmm(time_str).ok
       THEN reject_invalid
       ELSE /\ room_for_insert
            /\ insert_and_schedule(chat_id, "daily", time_str, NoneDate, message, stored)
    /\ UNCHANGED <<now, sched_vars, chat_timezones, phase, fired, sent>>

setcountdown(chat_id, time_str, date_str, title, stored) ==
    /\ phase = "running"
    /\ IF ~parse_hhmm(time_str).ok \/ ~parse_date(date_str).ok
       THEN reject_invalid
       ELSE /\ room_for_insert
            /\ insert_and_schedule(chat_id, "countdown", time_str, date_str, title, stored)
    /\ UNCHANGED <<now, sched_vars, chat_timezones, phase, fired, sent>>

setrepeating(chat_id, time_str, end_date_str, message, stored) ==
    /\ phase = "running"
    /\ IF ~parse_hhmm(time_str).ok \/ ~parse_date(end_date_str).ok
       THEN reject_invalid
       ELSE /\ room_for_insert
            /\ insert_and_schedule(chat_id, "repeating", time_str, end_date_str, message, stored)
    /\ UNCHANGED <<now, sched_vars, chat_timezones, phase, fired, sent>>

\* The ids the SELECT of status yields for a chat, over a schedules table.
status_rows(table, chat_id) == {id \in DOMAIN table : table[id].chat_id = chat_id}

\* The rows for which status appends a line to its reply: the if/elif chain
\* has a branch for each of the three kinds and none for any other.
status_lines(table, chat_id) ==
    {id \in status_rows(table, chat_id) :
        table[id].schedule_type \in {"daily", "countdown", "repeating"}}

status(chat_id) ==
    /\ phase = "running"
    /\ reply' = IF status_rows(schedules, chat_id) = {}
                THEN "no schedules"
                ELSE IF status_lines(schedules, chat_id) = {}
                THEN "schedules: no lines"
                ELSE "schedules"
    /\ UNCHANGED <<now, sched_vars, schedules, schedules_seq, chat_timezones, active_jobs,
                   job_queue, phase, fired, issued, sent>>

removeschedule(chat_id, schedule_id) ==
    /\ phase = "running"
    /\ delete_and_deregister(schedule_id)
    /\ reply' = IF schedule_id \in DOMAIN schedules
                THEN "removed"
                ELSE "not found"
    /\ UNCHANGED <<now, sched_vars, schedules_seq, chat_timezones, phase, fired, issued, sent>>

\* removeschedule statement by statement.  The position of the handler
\* between its two writes is kept in reply: the id it was called with and
\* the rowcount of its DELETE.
removing(schedule_id, deleted) ==
    (IF deleted THEN "deleted " ELSE "no row ") \o ToString(schedule_id)

handler_idle ==
    \A id \in 1..(MaxRows + 1), deleted \in BOOLEAN : reply # removing(id, deleted)

\* cur.execute("DELETE FROM schedules WHERE id = ?"); deleted = cur.rowcount;
\* conn.commit(); conn.close()
removeschedule_delete(chat_id, schedule_id) ==
    /\ phase = "running"
    /\ handler_idle
    /\ schedules' = drop_key(schedules, schedule_id)
    /\ reply' = removing(schedule_id, schedule_id \in DOMAIN schedules)
    /\ UNCHANGED <<now, sched_vars, schedules_seq, chat_timezones, active_jobs, job_queue, phase,
                   fired, issued, sent>>

\* Faulty variant of the second half of removeschedule: the reply is chosen
\* by whether a job was registered, not by the rowcount of the DELETE.
removeschedule_cancel_job_reply_by_job ==
    /\ phase = "running"
    /\ \E id \in 1..(MaxRows + 1), deleted \in BOOLEAN :
          /\ reply = removing(id, deleted)
          /\ active_jobs' = drop_key(active_jobs, id)
          /\ job_queue' = IF id \in DOMAIN active_jobs
                          THEN job_queue \ {active_jobs[id]}
                          ELSE job_queue
          /\ reply' = IF id \in DOMAIN active_jobs THEN "removed" ELSE "not found"
    /\ UNCHANGED <<now, sched_vars, schedules, schedules_seq, chat_timezones, phase, fired,
                   issued, sent>>

\* job = self.active_jobs.pop(schedule_id, None); if job: job.schedule_removal();
\* then the reply chosen by deleted.
removeschedule_cancel_job ==
    /\ phase = "running"
    /\ \E id \in 1..(MaxRows + 1), deleted \in BOOLEAN :
          /\ reply = removing(id, deleted)
          /\ active_jobs' = drop_key(active_jobs, id)
          /\ job_queue' = IF id \in DOMAIN active_jobs
                          THEN job_queue \ {active_jobs[id]}
                          ELSE job_queue
          /\ reply' = IF deleted THEN "removed" ELSE "not found"
    /\ UNCHANGED <<now, sched_vars, schedules, schedules_seq, chat_timezones, phase, fired,
                   issued, sent>>

\* Faulty variant of settimezone: the chat's stored schedules are rewritten
\* to the new timezone too.
settimezone_rewrites_rows(chat_id, tz_name) ==
    /\ phase = "running"
    /\ IF tz_name \notin Zones
       THEN /\ reply' = "invalid"
            /\ UNCHANGED <<chat_timezones, schedules>>
       ELSE /\ chat_timezones' = (chat_id :> tz_name) @@ chat_timezones
            /\ schedules' = [id \in DOMAIN schedules |->
                                IF schedules[id].chat_id = chat_id
                                THEN [schedules[id] EXCEPT !.timezone = tz_name]
                                ELSE schedules[id]]
            /\ reply' = "updated"
    /\ UNCHANGED <<now, sched_vars, schedules_seq, active_jobs, job_queue, phase, fired, issued, sent>>

settimezone(chat_id, tz_name) ==
    /\ phase = "running"
    /\ IF tz_name \notin Zones
       THEN /\ reply' = "invalid"
            /\ UNCHANGED chat_timezones
       ELSE /\ chat_timezones' = (chat_id :> tz_name) @@ chat_timezones
            /\ reply' = "updated"
    /\ UNCHANGED <<now, sched_vars, schedules, schedules_seq, active_jobs, job_queue, phase, fired,
                   issued, sent>>

\* The job queue runs a job at its time of day in its own timezone, once
\* for each such minute.
job_due(job) ==
    /\ phase = "running"
    /\ job \in job_queue
    /\ local_hour(astimezone(now, job.tz)) = job.hour
    /\ local_minute(astimezone(now, job.tz)) = job.minute
    /\ job.name \notin fired

mark_fired(job) == fired' = fired \cup {job.name}

send_message(schedule_id, chat_id, text, delivered) ==
    sent' = log_sent([chat_id |-> chat_id, text |-> text, id |-> schedule_id, at |-> now, ok |-> delivered])

\* Faulty variant of the guarded send: no try/except around send_message.
send_message_unguarded(schedule_id, chat_id, text, delivered) ==
    /\ send_message(schedule_id, chat_id, text, delivered)
    /\ reply' = IF delivered THEN "returned" ELSE "raised"

\* try: await context.bot.send_message(...) except Exception: logger.warning
send_message_guarded(schedule_id, chat_id, text, delivered) ==
    /\ send_message(schedule_id, chat_id, text, delivered)
    /\ reply' = "returned"

\* The callback returns early: nothing is written, nothing is sent.
callback_returns ==
    /\ reply' = "returned"
    /\ UNCHANGED <<schedules, active_jobs, job_queue, sent>>

\* Faulty variant of _daily_callback: the schedule is cancelled once sent.
daily_callback_once(job, delivered) ==
    /\ job.callback = "daily"
    /\ job_due(job)
    /\ mark_fired(job)
    /\ LET schedule_id == job.schedule_id
       IN  IF schedule_id \notin DOMAIN schedules \/ schedules[schedule_id].schedule_type # "daily"
           THEN callback_returns
           ELSE LET chat_id == schedules[schedule_id].chat_id
                    dt == astimezone(now, get_chat_timezone(chat_id))
                IN  /\ send_message_guarded(schedule_id, chat_id,
                                            apply_templates(schedules[schedule_id].message, dt), delivered)
                    /\ cancel_schedule(schedule_id)
    /\ UNCHANGED <<now, sched_vars, schedules_seq, chat_timezones, phase, issued>>

daily_callback(job, delivered) ==
    /\ job.callback = "daily"
    /\ job_due(job)
    /\ mark_fired(job)
    /\ LET schedule_id == job.schedule_id
       IN  IF schedule_id \notin DOMAIN schedules \/ schedules[schedule_id].schedule_type # "daily"
           THEN callback_returns
           ELSE LET chat_id == schedules[schedule_id].chat_id
                    dt == astimezone(now, get_chat_timezone(chat_id))
                IN  /\ send_message_guarded(schedule_id, chat_id,
                                            apply_templates(schedules[schedule_id].message, dt), delivered)
                    /\ UNCHANGED <<schedules, active_jobs, job_queue>>
    /\ UNCHANGED <<now, sched_vars, schedules_seq, chat_timezones, phase, issued>>

countdown_expired(row, t) == local_date(astimezone(t, row.timezone)) > parse_date(row.end_date_str).date

countdown_text(days, title) ==
    <<ToString(days), " day", IF days # 1 THEN "s" ELSE "", " remaining until ">> \o title \o <<"!">>

ended_text(title) == <<"Countdown for ">> \o title \o <<" has ended.">>

countdown_callback(job, delivered) ==
    /\ job.callback = "countdown"
    /\ job_due(job)
    /\ mark_fired(job)
    /\ LET schedule_id == job.schedule_id
       IN  IF schedule_id \notin DOMAIN schedules \/ schedules[schedule_id].schedule_type # "countdown"
           THEN callback_returns
           ELSE LET row == schedules[schedule_id]
                    today == local_date(astimezone(now, row.timezone))
                    end_date == parse_date(row.end_date_str)
                IN  IF ~end_date.ok
                    THEN callback_returns
                    ELSE IF countdown_expired(row, now)
                    THEN /\ cancel_schedule(schedule_id)
                         /\ send_message(schedule_id, row.chat_id, ended_text(row.message), delivered)
                         /\ reply' = IF delivered THEN "returned" ELSE "raised"
                    ELSE /\ send_message_guarded(schedule_id, row.chat_id,
                                                 countdown_text(end_date.date - today, row.message),
                                                 delivered)
                         /\ UNCHANGED <<schedules, active_jobs, job_queue>>
    /\ UNCHANGED <<now, sched_vars, schedules_seq, chat_timezones, phase, issued>>

\* Faulty variant of the expiry test of _repeating_callback: now >= end_date.
repeating_expired_on_end_date(row, t) ==
    local_date(astimezone(t, row.timezone)) >= parse_date(row.end_date_str).date

repeating_expired(row, t) == local_date(astimezone(t, row.timezone)) > parse_date(row.end_date_str).date

repeating_callback(job, delivered) ==
    /\ job.callback = "repeating"
    /\ job_due(job)
    /\ mark_fired(job)
    /\ LET schedule_id == job.schedule_id
       IN  IF schedule_id \notin DOMAIN schedules \/ schedules[schedule_id].schedule_type # "repeating"
           THEN callback_returns
           ELSE LET row == schedules[schedule_id]
                IN  IF ~parse_date(row.end_date_str).ok
                    THEN callback_returns
                    ELSE IF repeating_expired(row, now)
                    THEN /\ cancel_schedule(schedule_id)
                         /\ reply' = "returned"
                         /\ UNCHANGED sent
                    ELSE /\ send_message_guarded(schedule_id, row.chat_id,
                                                 apply_templates(row.message, astimezone(now, row.timezone)),
                                                 delivered)
                         /\ UNCHANGED <<schedules, active_jobs, job_queue>>
    /\ UNCHANGED <<now, sched_vars, schedules_seq, chat_timezones, phase, issued>>

----------------------------------------------------------------------------
(* The clock *)

\* Time passes by one unit.  While the scheduler thread runs, its loop polls
\* run_pending every second, so the tick job is run within MaxLatency of
\* its next_run.
advance ==
    /\ now < MaxTime
    /\ (running => now < next_run + MaxLatency)
    /\ now' = now + 1
    /\ UNCHANGED <<sched_vars, tg_vars, sent>>

\* Time passes by one minute.
advance_minute ==
    /\ now + MinuteLen <= MaxTime
    /\ now' = now + MinuteLen
    /\ fired' = {}
    /\ UNCHANGED <<sched_vars, schedules, schedules_seq, chat_timezones, active_jobs, job_queue,
                   phase, reply, issued, sent>>

----------------------------------------------------------------------------
(* Inputs *)

TimeInputs == {TimeStr(0, 1), BadTimeStr}
BadTimeInputs == {TimeStr(HoursPerDay, 0), TimeStr(0, MinutesPerHour), TimeStr(0 - 1, 0), BadTimeStr}
DateInputs == {DateStr(0), DateStr(1), BadDateStr}
Templates == {<<"H", "i", " ">> \o TokDay \o <<" ">> \o TokTime}
Titles == {<<"New Year">>}
TzInputs == {"Europe/London", "Mars/Phobos"}
GroupTables == {(1 :> "Europe/London") @@ (2 :> "UTC"), (1 :> "UTC")}

----------------------------------------------------------------------------
(* Specifications *)

InitBotEmpty ==
    /\ schedules = EmptyMap
    /\ schedules_seq = 0
    /\ chat_timezones = EmptyMap
    /\ active_jobs = EmptyMap
    /\ job_queue = {}
    /\ phase = "constructed"
    /\ fired = {}
    /\ reply = "none"
    /\ issued = {}
    /\ sent = <<>>

\* scheduler.py over database.py, the groups table as some earlier run left
\* it and not written again: every group's timezone is held fixed.
InitSched ==
    /\ now = 0
    /\ groups \in GroupTables
    /\ scheduled_messages = <<>>
    /\ running = FALSE
    /\ next_run = NoJob
    /\ ret = [op |-> "none", val |-> FALSE]
    /\ dueLog = EmptyMap
    /\ last_tick = NoJob
    /\ last_snapshot = {}
    /\ scheduler_threads = 0
    /\ schedule_jobs = 0
    /\ InitBotEmpty

NextSched ==
    \/ advance
    \/ start
    \/ stop
    \/ process_restart
    \/ check_and_send_messages
    \/ \E c \in ChatIds, t \in TimeInputs, m \in Templates : add_daily_message(c, t, m)
    \/ \E c \in ChatIds, t \in TimeInputs, d \in DateInputs, ti \in Titles : add_countdown_message(c, t, d, ti)
    \/ \E id \in 1..(MaxRows + 1), c \in ChatIds : remove_schedule(id, c)

SpecSched == InitSched /\ [][NextSched]_vars

\* telegram_bot.py: a bot constructed over an empty database.
InitBot ==
    /\ now = 0
    /\ groups = EmptyMap
    /\ scheduled_messages = <<>>
    /\ running = FALSE
    /\ next_run = NoJob
    /\ ret = [op |-> "none", val |-> FALSE]
    /\ dueLog = EmptyMap
    /\ last_tick = NoJob
    /\ last_snapshot = {}
    /\ scheduler_threads = 0
    /\ schedule_jobs = 0
    /\ InitBotEmpty

Jobs == job_queue \cup {active_jobs[id] : id \in DOMAIN active_jobs}

NextBot ==
    \/ advance_minute
    \/ bot_restart
    \/ run
    \/ \E c \in ChatIds, t \in TimeInputs, m \in Templates, stored \in BOOLEAN :
          setschedule(c, t, m, stored)
    \/ \E c \in ChatIds, t \in TimeInputs, d \in DateInputs, ti \in Titles, stored \in BOOLEAN :
          setcountdown(c, t, d, ti, stored)
    \/ \E c \in ChatIds, t \in TimeInputs, d \in DateInputs, m \in Templates, stored \in BOOLEAN :
          setrepeating(c, t, d, m, stored)
    \/ \E c \in ChatIds : status(c)
    \/ \E c \in ChatIds, id \in 1..(MaxRows + 1) : removeschedule(c, id)
    \/ \E c \in ChatIds, tz \in TzInputs : settimezone(c, tz)
    \/ \E job \in Jobs, delivered \in BOOLEAN : daily_callback(job, delivered)
    \/ \E job \in Jobs, delivered \in BOOLEAN : countdown_callback(job, delivered)
    \/ \E job \in Jobs, delivered \in BOOLEAN : repeating_callback(job, delivered)

SpecBot == InitBot /\ [][NextBot]_vars

\* The formatting functions of scheduler.py applied to stored rows at any
\* instant, by awaiting _send_scheduled_message directly.
NextFormat ==
    \/ advance
    \/ \E c \in ChatIds, t \in TimeInputs, m \in Templates : add_daily_message(c, t, m)
    \/ \E c \in ChatIds, t \in TimeInputs, d \in DateInputs, ti \in Titles : add_countdown_message(c, t, d, ti)
    \/ \E id \in 1..MaxRows : send_scheduled_message(id)

SpecFormat == InitSched /\ [][NextFormat]_vars

\* The two stores and the operations that write them, with no clock: the
\* command handlers of telegram_bot.py and the calls into scheduler.py, from
\* one chat, on well-formed and on malformed input.
AllTimeInputs == TimeInputs \cup BadTimeInputs
StoreDateInputs == {DateStr(0), BadDateStr}
StoreChats == {c \in ChatIds : \A d \in ChatIds : c <= d}

NextStore ==
    \/ bot_restart
    \/ run
    \/ \E c \in StoreChats, t \in AllTimeInputs, m \in Templates, stored \in BOOLEAN :
          setschedule(c, t, m, stored)
    \/ \E c \in StoreChats, t \in AllTimeInputs, d \in StoreDateInputs, ti \in Titles, stored \in BOOLEAN :
          setcountdown(c, t, d, ti, stored)
    \/ \E c \in StoreChats, t \in AllTimeInputs, d \in StoreDateInputs, m \in Templates, stored \in BOOLEAN :
          setrepeating(c, t, d, m, stored)
    \/ \E c \in StoreChats, id \in 1..MaxRows : removeschedule(c, id)
    \/ \E c \in StoreChats, t \in AllTimeInputs, m \in Templates : add_daily_message(c, t, m)
    \/ \E c \in StoreChats, t \in AllTimeInputs, d \in StoreDateInputs, ti \in Titles :
          add_countdown_message(c, t, d, ti)
    \/ \E id \in 1..MaxRows, c \in StoreChats : remove_schedule(id, c)

SpecStore == InitSched /\ [][NextStore]_vars

\* The timezone settings of both programs and the operations that write and
\* read them: add_group and update_group_timezone of database.py, settimezone
\* and the create handler that stamps the chat's timezone on a new row.
InitTz ==
    /\ now = 0
    /\ groups = EmptyMap
    /\ scheduled_messages = <<>>
    /\ running = FALSE
    /\ next_run = NoJob
    /\ ret = [op |-> "none", val |-> FALSE]
    /\ dueLog = EmptyMap
    /\ last_tick = NoJob
    /\ last_snapshot = {}
    /\ scheduler_threads = 0
    /\ schedule_jobs = 0
    /\ InitBotEmpty

NextTz ==
    \/ bot_restart
    \/ run
    \/ \E c \in ChatIds, tz \in Zones : add_group(c, tz)
    \/ \E c \in ChatIds, tz \in Zones : update_group_timezone(c, tz)
    \/ \E c \in ChatIds : read_group_timezone(c)
    \/ \E c \in ChatIds, tz \in Zones \cup TzInputs : settimezone(c, tz)
    \/ \E c \in ChatIds, t \in TimeInputs, m \in Templates, stored \in BOOLEAN :
          setschedule(c, t, m, stored)
    \/ \E c \in ChatIds, id \in 1..MaxRows : removeschedule(c, id)

SpecTz == InitTz /\ [][NextTz]_vars

\* Template rendering: _format_daily_message through _send_scheduled_message
\* and _apply_templates through _daily_callback, on templates that nest,
\* repeat and lack the recognized tokens, at every minute of the calendar.
RenderTemplates ==
    {<<"{", "d", "a">> \o TokYear \o <<"t", "e", "}">>,
     <<"{">> \o TokDay \o <<"}">>,
     <<"{", "x", "}">> \o TokTime \o <<"{", "t", "i", "m", "e">>,
     <<"o", "k">>,
     TokDate \o TokTime \o TokDay \o TokMonth \o TokYear \o TokYear}
RenderTimes == {TimeStr(0, 1)}

NextRender ==
    \/ advance_minute
    \/ run
    \/ \E c \in StoreChats, t \in RenderTimes, m \in RenderTemplates : add_daily_message(c, t, m)
    \/ \E id \in 1..MaxRows : send_scheduled_message(id)
    \/ \E c \in StoreChats, t \in RenderTimes, m \in RenderTemplates : setschedule(c, t, m, TRUE)
    \/ \E job \in Jobs : daily_callback(job, TRUE)

SpecRender == InitSched /\ [][NextRender]_vars

\* telegram_bot.py constructed over a database file that already holds
\* rows: well-formed ones, or ones whose time string does not parse, whose
\* kind is none of the three or whose timezone is no timezone name, as
\* another writer of the file has left them.
PersistedKinds == {"daily", "weekly"}
PersistedTimes == {TimeStr(0, 1), TimeStr(HoursPerDay, 0), BadTimeStr}
PersistedZones == {"UTC", "Mars/Phobos"}
PersistedRows ==
    {row_of_record(ScheduleRecord(1, c, k, t, NoneDate, m, "UTC")) :
        c \in ChatIds, k \in PersistedKinds, t \in PersistedTimes, m \in Templates}
PersistedPairRows ==
    {row_of_record(ScheduleRecord(1, c, "daily", t, NoneDate, m, tz)) :
        c \in StoreChats, t \in {TimeStr(0, 1), BadTimeStr}, m \in Templates, tz \in PersistedZones}
PersistedTables ==
    {EmptyMap} \cup {(1 :> r) : r \in PersistedRows}
               \cup {(1 :> r) @@ (2 :> q) : r \in PersistedPairRows, q \in PersistedPairRows}

InitRestore ==
    /\ now = 0
    /\ groups = EmptyMap
    /\ scheduled_messages = <<>>
    /\ running = FALSE
    /\ next_run = NoJob
    /\ ret = [op |-> "none", val |-> FALSE]
    /\ dueLog = EmptyMap
    /\ last_tick = NoJob
    /\ last_snapshot = {}
    /\ scheduler_threads = 0
    /\ schedule_jobs = 0
    /\ schedules \in PersistedTables
    /\ schedules_seq = Cardinality(DOMAIN schedules)
    /\ issued = DOMAIN schedules
    /\ chat_timezones = EmptyMap
    /\ active_jobs = restore_schedules.active_jobs
    /\ job_queue = restore_schedules.job_queue
    /\ phase = IF restore_raises THEN "failed" ELSE "constructed"
    /\ fired = {}
    /\ reply = "none"
    /\ sent = <<>>

NextRestore ==
    \/ bot_restart
    \/ run
    \/ \E c \in ChatIds : status(c)
    \/ \E c \in ChatIds, id \in 1..MaxRows : removeschedule(c, id)
    \/ \E c \in ChatIds, t \in TimeInputs, m \in Templates, stored \in BOOLEAN :
          setschedule(c, t, m, stored)
    \/ \E c \in ChatIds, tz \in TzInputs : settimezone(c, tz)

SpecRestore == InitRestore /\ [][NextRestore]_vars

\* telegram_bot.py constructed over such a database file, with every handler
\* and every job-queue callback.
SpecPersisted == InitRestore /\ [][NextBot]_vars

\* telegram_bot.py with removeschedule taken statement by statement, over a
\* database file that may already hold a row: the other handlers run only
\* between handlers, the process may be restarted at any statement.
NextRemove ==
    \/ bot_restart
    \/ run
    \/ handler_idle /\ \E c \in ChatIds, t \in TimeInputs, m \in Templates, stored \in BOOLEAN :
                          setschedule(c, t, m, stored)
    \/ handler_idle /\ \E c \in ChatIds, t \in TimeInputs, d \in DateInputs, ti \in Titles :
                          setcountdown(c, t, d, ti, TRUE)
    \/ handler_idle /\ \E c \in ChatIds, tz \in TzInputs : settimezone(c, tz)
    \/ \E c \in ChatIds, id \in 1..(MaxRows + 1) : removeschedule_delete(c, id)
    \/ removeschedule_cancel_job

SpecRemove == InitRestore /\ [][NextRemove]_vars

\* scheduler.py over database.py with the group's timezone written while the
\* loop runs: set_timezone_command calls update_group_timezone between ticks.
NextZone ==
    \/ advance
    \/ start
    \/ check_and_send_messages
    \/ \E c \in StoreChats, t \in TimeInputs, m \in Templates : add_daily_message(c, t, m)
    \/ \E c \in StoreChats, tz \in Zones : update_group_timezone(c, tz)
    \/ \E id \in 1..MaxRows, c \in StoreChats : remove_schedule(id, c)

SpecZone == InitSched /\ [][NextZone]_vars

\* scheduler.py with the tick taken statement by statement and the command
\* handlers writing the database in between.
NextTick ==
    \/ advance
    \/ start
    \/ tick_snapshot
    \/ tick_evaluate
    \/ \E c \in ChatIds, t \in TimeInputs, m \in Templates : add_daily_message(c, t, m)
    \/ \E id \in 1..MaxRows, c \in ChatIds : remove_schedule(id, c)

SpecTick == InitSched /\ [][NextTick]_vars

\* scheduler.py in one process: start() and stop() called one after another,
\* in any order and any number of times, around the ticks.
NextWorker ==
    \/ advance
    \/ start
    \/ stop
    \/ check_and_send_messages
    \/ \E c \in StoreChats, t \in TimeInputs, m \in Templates : add_daily_message(c, t, m)

SpecWorker == InitSched /\ [][NextWorker]_vars

----------------------------------------------------------------------------
(* Claims about scheduler.py / database.py *)

row_of(key) == scheduled_messages[key[1]]

\* C1: with every group's timezone held fixed, no schedule is found due
\* twice for the same local (date, hour, minute), whatever the ticks, the
\* stop()/start() calls and the restarts.
C1_AtMostOncePerLocalMinute == \A key \in DOMAIN dueLog : dueLog[key] <= 1

\* The instants between two ticks at which a row is due.
due_instants(id, from, to) == {t \in from..to : should_send_message(msg_config(id), t)}

\* C2: while the loop runs without interruption no firing is missed: for a
\* daily schedule that both of two consecutive ticks read from the store,
\* every instant between them at which it was due lies in a minute that one
\* of the two ticks sampled (no whole wall-clock minute is skipped).
C2_NoMissedFiring ==
    [][(check_and_send_messages /\ last_tick # NoJob) =>
          \A id \in last_snapshot \cap last_snapshot' :
              scheduled_messages[id].message_type = "daily" =>
                  \A t \in due_instants(id, last_tick, now) :
                      minute_index(t) \in {minute_index(last_tick), minute_index(now)}]_vars

\* C3: when a tick finds a record due, bot.send_message is called for it
\* with its rendered text and its chat_id.  The tick leaves no task behind,
\* so what was not sent when the tick ended is never sent.
C3_DueIsDelivered ==
    [][(check_and_send_messages /\ dueLog' # dueLog) =>
          \E id \in last_snapshot' :
              /\ should_send_message(msg_config(id), now)
              /\ sent' # sent
              /\ sent'[Len(sent')].chat_id = scheduled_messages[id].chat_id
              /\ sent'[Len(sent')].id = id]_vars

\* C8: a countdown whose local date is after its target date is never found
\* due.
C8_ExpiredCountdownNeverDue ==
    \A key \in DOMAIN dueLog :
        row_of(key).message_type = "countdown" => key[2] <= row_of(key).target_date.d

\* C9: remove_schedule returns True exactly when the id names an active
\* schedule of the chat, so a second removal returns False; and a False
\* return leaves the store unchanged.
C9_RemoveTwiceNotFound ==
    [][\A id \in 1..(MaxRows + 1), c \in ChatIds :
          remove_schedule(id, c) =>
              /\ ret'.val = (/\ id <= Len(scheduled_messages)
                             /\ scheduled_messages[id].chat_id = c
                             /\ scheduled_messages[id].is_active)
              /\ (~ret'.val => scheduled_messages' = scheduled_messages)]_vars

Contains(text, chunk) == \E j \in 1..Len(text) : text[j] = chunk

\* C7: the countdown message counts target_date minus the local calendar
\* date of the group's timezone: sent on local date d it reports
\* target_date - d days, and it is the 'TODAY IS THE DAY' message exactly
\* when d is the target date.
C7_DaysRemainingIsDateDifference ==
    [][\A id \in 1..MaxRows :
          (send_scheduled_message(id) /\ scheduled_messages[id].message_type = "countdown") =>
              LET row == scheduled_messages[id]
                  d == local_date(astimezone(now, groups[row.chat_id]))
                  n == row.target_date.d - d
                  text == sent'[Len(sent')].text
              IN  /\ Contains(text, "TODAY IS THE DAY!") <=> (n = 0)
                  /\ n > 0 => Contains(text, ToString(n)) /\ Contains(text, " days remaining!")]_vars

----------------------------------------------------------------------------
(* Claims about telegram_bot.py *)

well_formed(row) ==
    /\ parse_hhmm(row.time_str).ok
    /\ row.schedule_type \in {"daily", "countdown", "repeating"}

\* C4: create followed by a restart is a round trip: __init__ leaves the
\* table as it was and, before the job queue runs, registers every
\* well-formed row under its id with the row's kind, time of day and
\* timezone, the same job as the one the create had registered.
C4_RestoreRoundTrip ==
    [][bot_restart =>
          /\ schedules' = schedules
          /\ phase' = "constructed"
          /\ \A id \in DOMAIN schedules :
                well_formed(schedules[id]) =>
                    /\ id \in DOMAIN active_jobs'
                    /\ active_jobs'[id] \in job_queue'
                    /\ active_jobs'[id].schedule_id = id
                    /\ active_jobs'[id].callback = schedules[id].schedule_type
                    /\ active_jobs'[id].hour = schedules[id].time_str.h
                    /\ active_jobs'[id].minute = schedules[id].time_str.m
                    /\ active_jobs'[id].tz = schedules[id].timezone
                    /\ (id \in DOMAIN active_jobs => active_jobs'[id] = active_jobs[id])]_vars

C4_Witness ==
    /\ phase = "constructed"
    /\ \E id \in DOMAIN schedules \cap DOMAIN active_jobs :
          /\ schedules[id].timezone = "Europe/London"
          /\ active_jobs[id] \in job_queue

last_sent == sent[Len(sent)]

\* C5: a firing of _countdown_callback at which the local date in the
\* record's timezone is after end_date deletes the row, removes the job and
\* sends the 'has ended' message and nothing else; status lists it no more.
C5_ExpiredCountdownRetired ==
    [][\A job \in Jobs, delivered \in BOOLEAN :
          (/\ countdown_callback(job, delivered)
           /\ job.schedule_id \in DOMAIN schedules
           /\ schedules[job.schedule_id].schedule_type = "countdown"
           /\ local_date(astimezone(now, schedules[job.schedule_id].timezone))
                  > schedules[job.schedule_id].end_date_str.d) =>
              /\ job.schedule_id \notin DOMAIN schedules'
              /\ job.schedule_id \notin DOMAIN active_jobs'
              /\ job \notin job_queue'
              /\ job.schedule_id \notin status_rows(schedules', schedules[job.schedule_id].chat_id)
              /\ sent' = log_sent([chat_id |-> schedules[job.schedule_id].chat_id,
                                   text |-> <<"Countdown for ">> \o schedules[job.schedule_id].message
                                            \o <<" has ended.">>,
                                   id |-> job.schedule_id, at |-> now, ok |-> delivered])]_vars

C5_Witness ==
    /\ sent # <<>>
    /\ Contains(last_sent.text, " has ended.")
    /\ last_sent.id \notin DOMAIN schedules
    /\ last_sent.id \notin DOMAIN active_jobs

\* The text of a template with every recognized token replaced, in one pass
\* from left to right, by its value at local reading l.
RECURSIVE render_single_pass(_, _)
render_single_pass(s, l) ==
    LET starts(tok) == Len(s) >= Len(tok) /\ SubSeq(s, 1, Len(tok)) = tok
        rest(tok) == render_single_pass(SubSeq(s, Len(tok) + 1, Len(s)), l)
    IN  IF s = <<>> THEN <<>>
        ELSE IF starts(TokDate) THEN <<strftime_date(l)>> \o rest(TokDate)
        ELSE IF starts(TokTime) THEN <<strftime_time(l)>> \o rest(TokTime)
        ELSE IF starts(TokDay) THEN <<strftime_day(l)>> \o rest(TokDay)
        ELSE IF starts(TokMonth) THEN <<strftime_month(l)>> \o rest(TokMonth)
        ELSE IF starts(TokYear) THEN <<strftime_year(l)>> \o rest(TokYear)
        ELSE <<Head(s)>> \o render_single_pass(Tail(s), l)

\* C6: a firing of a repeating schedule on or before end_date (local date of
\* the record's timezone) sends its rendered message and keeps the schedule;
\* a firing after end_date deletes the row, removes the job and sends
\* nothing.
C6_RepeatingUntilEndDate ==
    [][\A job \in Jobs, delivered \in BOOLEAN :
          (/\ repeating_callback(job, delivered)
           /\ job.schedule_id \in DOMAIN schedules
           /\ schedules[job.schedule_id].schedule_type = "repeating") =>
              LET id == job.schedule_id
                  row == schedules[id]
                  l == astimezone(now, row.timezone)
              IN  IF local_date(l) <= row.end_date_str.d
                  THEN /\ sent' = log_sent([chat_id |-> row.chat_id,
                                            text |-> render_single_pass(row.message, l),
                                            id |-> id, at |-> now, ok |-> delivered])
                       /\ schedules' = schedules
                       /\ active_jobs' = active_jobs
                       /\ job_queue' = job_queue
                  ELSE /\ id \notin DOMAIN schedules'
                       /\ id \notin DOMAIN active_jobs'
                       /\ job \notin job_queue'
                       /\ sent' = sent]_vars

\* A repeating schedule has delivered on its end date and has then been
\* retired by a later firing: nothing was sent after that delivery.
C6_Witness ==
    /\ sent # <<>>
    /\ last_sent.text = <<"H", "i", " ", "Monday", " ", "00:01">>
    /\ last_sent.at < DayLen
    /\ now >= DayLen
    /\ last_sent.id \notin DOMAIN schedules
    /\ last_sent.id \notin DOMAIN active_jobs
    /\ fired # {}

\* C10: a removeschedule issued from a chat that does not own the schedule
\* deletes and deregisters nothing and is answered 'not found'.
C10_RemoveScopedToOwner ==
    [][\A c \in ChatIds, id \in 1..(MaxRows + 1) :
          (/\ removeschedule(c, id)
           /\ id \in DOMAIN schedules
           /\ schedules[id].chat_id # c) =>
              /\ schedules' = schedules
              /\ active_jobs' = active_jobs
              /\ job_queue' = job_queue
              /\ reply' = "not found"]_vars

----------------------------------------------------------------------------
(* Claims about input validation, persistence and delivery failures *)

malformed_time(s) == ~s.wf \/ s.h < 0 \/ s.h >= HoursPerDay \/ s.m < 0 \/ s.m >= MinutesPerHour
malformed_date(s) == ~s.wf

bot_store_unchanged ==
    /\ schedules' = schedules
    /\ schedules_seq' = schedules_seq
    /\ active_jobs' = active_jobs
    /\ job_queue' = job_queue

\* C11: a create request with a malformed time or a malformed date is
\* rejected and writes nothing: the handlers of telegram_bot.py leave the
\* schedules table and the registered jobs as they were and reply
\* 'invalid'; add_daily_message and add_countdown_message leave
\* scheduled_messages as it was and return False.
C11_MalformedInputRejected ==
    [][/\ \A c \in StoreChats, t \in AllTimeInputs, m \in Templates, stored \in BOOLEAN :
              (malformed_time(t) /\ setschedule(c, t, m, stored)) =>
                  (bot_store_unchanged /\ reply' = "invalid")
       /\ \A c \in StoreChats, t \in AllTimeInputs, d \in StoreDateInputs, ti \in Titles, stored \in BOOLEAN :
              ((malformed_time(t) \/ malformed_date(d)) /\ setcountdown(c, t, d, ti, stored)) =>
                  (bot_store_unchanged /\ reply' = "invalid")
       /\ \A c \in StoreChats, t \in AllTimeInputs, d \in StoreDateInputs, m \in Templates, stored \in BOOLEAN :
              ((malformed_time(t) \/ malformed_date(d)) /\ setrepeating(c, t, d, m, stored)) =>
                  (bot_store_unchanged /\ reply' = "invalid")
       /\ \A c \in StoreChats, t \in AllTimeInputs, m \in Templates :
              (malformed_time(t) /\ add_daily_message(c, t, m)) =>
                  (scheduled_messages' = scheduled_messages /\ ~ret'.val)
       /\ \A c \in StoreChats, t \in AllTimeInputs, d \in StoreDateInputs, ti \in Titles :
              ((malformed_time(t) \/ malformed_date(d)) /\ add_countdown_message(c, t, d, ti)) =>
                  (scheduled_messages' = scheduled_messages /\ ~ret'.val)]_vars

\* Both engines have refused a request while holding a schedule.
C11_Witness ==
    /\ reply = "invalid"
    /\ schedules # EmptyMap
    /\ active_jobs # EmptyMap
    /\ ret = [op |-> "add_countdown_message", val |-> FALSE]
    /\ \E i \in 1..Len(scheduled_messages) : scheduled_messages[i].is_active

\* The outcome of a create handler on well-formed input: with the row
\* stored, the row and its job exist under the new id; with the INSERT
\* failing, the exception escapes and nothing has been written or registered.
created_or_failed(stored) ==
    IF stored
    THEN /\ schedules_seq + 1 \in DOMAIN schedules'
         /\ schedules_seq + 1 \in DOMAIN active_jobs'
         /\ active_jobs'[schedules_seq + 1] \in job_queue'
         /\ reply' = "scheduled"
    ELSE /\ reply' = "raised"
         /\ bot_store_unchanged

\* C12: create persists first and registers second: no job is ever
\* registered under an id that has no row, and when the INSERT fails the
\* failure reaches the caller with the job queue and active_jobs unchanged.
C12_PersistThenRegister ==
    [][/\ \A id \in DOMAIN active_jobs' \ DOMAIN active_jobs : id \in DOMAIN schedules'
       /\ \A job \in job_queue' \ job_queue : job.schedule_id \in DOMAIN schedules'
       /\ \A c \in StoreChats, t \in TimeInputs, m \in Templates, stored \in BOOLEAN :
              (~malformed_time(t) /\ setschedule(c, t, m, stored)) => created_or_failed(stored)
       /\ \A c \in StoreChats, t \in TimeInputs, d \in StoreDateInputs, ti \in Titles, stored \in BOOLEAN :
              (~malformed_time(t) /\ ~malformed_date(d) /\ setcountdown(c, t, d, ti, stored)) =>
                  created_or_failed(stored)
       /\ \A c \in StoreChats, t \in TimeInputs, d \in StoreDateInputs, m \in Templates, stored \in BOOLEAN :
              (~malformed_time(t) /\ ~malformed_date(d) /\ setrepeating(c, t, d, m, stored)) =>
                  created_or_failed(stored)]_vars

\* An INSERT has failed after an earlier create had succeeded.
C12_Witness ==
    /\ reply = "raised"
    /\ issued # {}
    /\ DOMAIN active_jobs = DOMAIN schedules
    /\ \A job \in job_queue : job.schedule_id \in DOMAIN schedules

\* The row of a job is there, of the job's kind, and not past its end date.
live_unexpired(job) ==
    /\ job.schedule_id \in DOMAIN schedules
    /\ schedules[job.schedule_id].schedule_type = job.callback
    /\ job.callback # "daily" =>
          local_date(astimezone(now, schedules[job.schedule_id].timezone))
              <= schedules[job.schedule_id].end_date_str.d

\* One failed call of send_message for the job's schedule, nothing retired,
\* no exception let through.
failed_once_and_kept(job) ==
    /\ reply' = "returned"
    /\ schedules' = schedules
    /\ active_jobs' = active_jobs
    /\ job_queue' = job_queue
    /\ sent' # <<>>
    /\ sent' = log_sent(sent'[Len(sent')])
    /\ sent'[Len(sent')].id = job.schedule_id
    /\ sent'[Len(sent')].at = now
    /\ ~sent'[Len(sent')].ok

\* C13: a delivery failure never retires a schedule: when send_message
\* raises in a callback firing for a record that is not expired, the
\* callback returns normally after that one attempt, and the row and its
\* job stay, so the job fires again at its next daily occurrence.
C13_DeliveryFailureKeepsSchedule ==
    [][\A job \in Jobs :
          /\ (daily_callback(job, FALSE) /\ live_unexpired(job)) => failed_once_and_kept(job)
          /\ (countdown_callback(job, FALSE) /\ live_unexpired(job)) => failed_once_and_kept(job)
          /\ (repeating_callback(job, FALSE) /\ live_unexpired(job)) => failed_once_and_kept(job)]_vars

\* The day after a failed delivery the schedule is still registered.
C13_Witness ==
    /\ sent # <<>>
    /\ ~last_sent.ok
    /\ reply = "returned"
    /\ last_sent.id \in DOMAIN schedules
    /\ last_sent.id \in DOMAIN active_jobs
    /\ active_jobs[last_sent.id] \in job_queue
    /\ now >= last_sent.at + DayLen

times_due(log, key) == IF key \in DOMAIN log THEN log[key] ELSE 0

\* C14: failures are isolated per record within a tick: whatever the
\* dispatch of one due record raises, every other record of the tick's
\* snapshot is still evaluated in that tick and, being due, found due.
C14_FailuresIsolatedPerRecord ==
    [][check_and_send_messages =>
          \A id \in last_snapshot' :
              should_send_message(msg_config(id), now) =>
                  times_due(dueLog', due_key(id, now)) = times_due(dueLog, due_key(id, now)) + 1]_vars

\* C15: the placeholders of a delivered message are computed in the
\* timezone stored in the schedule's row, whatever settimezone has made of
\* the chat's timezone since: the text _daily_callback and
\* _repeating_callback send is the row's template rendered at the local
\* time of the row's timezone.
C15_RenderedInRecordTimezone ==
    [][\A job \in Jobs, delivered \in BOOLEAN :
          ((daily_callback(job, delivered) \/ repeating_callback(job, delivered))
              /\ live_unexpired(job)) =>
              /\ sent' # <<>>
              /\ sent'[Len(sent')].text =
                     render_single_pass(schedules[job.schedule_id].message,
                                        astimezone(now, schedules[job.schedule_id].timezone))]_vars

C17_IdsNeverReused ==
    [][/\ \A id \in DOMAIN schedules' \ DOMAIN schedules :
              id \notin issued /\ \A old \in issued : old < id
       /\ Len(scheduled_messages') >= Len(scheduled_messages)
       /\ \A i \in 1..Len(scheduled_messages) :
              [scheduled_messages'[i] EXCEPT !.is_active = TRUE]
                  = [scheduled_messages[i] EXCEPT !.is_active = TRUE]]_vars

\* The schedule with the highest id was removed, the bot restarted, and a
\* new schedule created; the other store holds a removed and a later row.
C17_Witness ==
    /\ Cardinality(issued) >= 2
    /\ DOMAIN schedules # {}
    /\ \A id \in DOMAIN schedules : \A old \in issued \ DOMAIN schedules : old < id
    /\ Len(scheduled_messages) >= 2
    /\ ~scheduled_messages[1].is_active
    /\ scheduled_messages[Len(scheduled_messages)].is_active

\* The ids of the schedules that were created and are gone.
retired(table) == issued \ DOMAIN table

\* C18: Retired is terminal: a schedule removed by removeschedule or retired
\* by expiry never has a row or a registered job again, whatever operation,
\* callback or restart follows, and every message sent is for a schedule
\* whose row was there when the callback started.
C18_RetiredIsTerminal ==
    [][/\ \A id \in retired(schedules) : id \notin DOMAIN schedules'
       /\ \A id \in retired(schedules') :
              /\ id \notin DOMAIN active_jobs'
              /\ \A job \in job_queue' : job.schedule_id # id
       /\ sent' # sent => sent'[Len(sent')].id \in DOMAIN schedules]_vars

\* A retired schedule's time of day comes round in a bot that was restarted
\* after the retirement.
C18_Witness ==
    /\ retired(schedules) # {}
    /\ phase = "running"
    /\ reply = "none"
    /\ job_queue = {}
    /\ local_hour(now) = 0
    /\ local_minute(now) = 1

----------------------------------------------------------------------------
(* Claims about listing *)

listed(chat_id) == {get_scheduled_messages(chat_id)[k] : k \in 1..Len(get_scheduled_messages(chat_id))}

\* C19: every schedule that add_daily_message or add_countdown_message
\* stored and that has not been removed is returned by
\* get_group_schedules(chat_id) for its chat and by the unfiltered
\* get_scheduled_messages() the tick reads, whether or not the chat has a
\* row in groups.
C19_CreatedSchedulesAreListed ==
    \A i \in 1..Len(scheduled_messages) :
        scheduled_messages[i].is_active =>
            /\ i \in listed(scheduled_messages[i].chat_id)
            /\ i \in listed(0)

\* C20: listing is scoped: for every chat_id c, zero included,
\* get_scheduled_messages(c) returns only active records of chat c, and
\* status lists only rows of the requesting chat.
C20_ListingIsScoped ==
    \A c \in 0..MaxChat :
        /\ \A i \in listed(c) :
              scheduled_messages[i].chat_id = c /\ scheduled_messages[i].is_active
        /\ \A id \in status_rows(schedules, c) : schedules[id].chat_id = c

----------------------------------------------------------------------------
(* Claims about the timezone setting and template rendering *)

\* The step stores a timezone setting through some write operation.
writes_timezone ==
    \/ \E c \in ChatIds, tz \in Zones : add_group(c, tz) \/ update_group_timezone(c, tz)
    \/ \E c \in ChatIds, tz \in Zones \cup TzInputs : settimezone(c, tz)

\* What a step may do to the readings of the timezone setting.
timezone_step ==
    /\ \A c \in ChatIds, tz \in Zones :
          /\ add_group(c, tz) =>
                /\ get_group_timezone(c)' = tz
                /\ \A d \in ChatIds \ {c} : get_group_timezone(d)' = get_group_timezone(d)
          /\ update_group_timezone(c, tz) =>
                /\ get_group_timezone(c)' = IF ret'.val THEN tz ELSE "UTC"
                /\ ret'.val = (c \in DOMAIN groups)
                /\ \A d \in ChatIds \ {c} : get_group_timezone(d)' = get_group_timezone(d)
          /\ settimezone(c, tz) =>
                /\ reply' = "updated"
                /\ get_chat_timezone(c)' = tz
                /\ \A d \in ChatIds \ {c} : get_chat_timezone(d)' = get_chat_timezone(d)
    /\ \A c \in ChatIds :
          read_group_timezone(c) =>
              ret'.timezone = IF c \in DOMAIN groups THEN groups[c] ELSE "UTC"
    /\ ~writes_timezone =>
          \A c \in ChatIds : /\ get_group_timezone(c)' = get_group_timezone(c)
                             /\ get_chat_timezone(c)' = get_chat_timezone(c)
    /\ \A c \in ChatIds, tz \in TzInputs \ Zones :
          settimezone(c, tz) => \A d \in ChatIds : get_chat_timezone(d)' = get_chat_timezone(d)
    /\ \A id \in DOMAIN schedules' \ DOMAIN schedules :
          schedules'[id].timezone = get_chat_timezone(schedules'[id].chat_id)

\* C21: the timezone setting is a per-chat mapping that defaults to UTC:
\* before anything is stored every chat reads 'UTC'; add_group, a successful
\* update_group_timezone and an accepted settimezone make their chat read
\* the stored value and leave every other chat's reading alone; a refused
\* write and every other operation leave all readings alone; and a new
\* schedule row is stamped with its chat's reading.
C21_TimezoneDefaultsToUTC ==
    /\ \A c \in ChatIds : get_group_timezone(c) = "UTC" /\ get_chat_timezone(c) = "UTC"
    /\ [][timezone_step]_vars

\* database.py has read a stored timezone while another chat still has the
\* default; in telegram_bot.py a chat's setting was replaced after a row had
\* been stamped with the earlier one.
C21_Witness ==
    /\ ret.op = "get_group_timezone"
    /\ ret.timezone = "Europe/London"
    /\ \E c \in ChatIds : c \notin DOMAIN groups
    /\ \E c \in DOMAIN chat_timezones :
          /\ chat_timezones[c] = "UTC"
          /\ \E id \in DOMAIN schedules :
                schedules[id].chat_id = c /\ schedules[id].timezone = "Europe/London"

RecognizedTokens == {TokDate, TokTime, TokDay, TokMonth, TokYear}

occurs(tok, text) == \E i \in 1..(Len(text) - Len(tok) + 1) : SubSeq(text, i, i + Len(tok) - 1) = tok

no_token_left(text) == \A tok \in RecognizedTokens : ~occurs(tok, text)

\* C22: template rendering is total: the text _format_daily_message renders
\* for a daily row and the text _apply_templates renders for a daily
\* schedule contain no occurrence of {date}, {time}, {day}, {month} or
\* {year}, whatever the template and the timezone.
C22_RenderingIsTotal ==
    [][/\ \A id \in 1..MaxRows :
              (send_scheduled_message(id) /\ scheduled_messages[id].message_type = "daily") =>
                  (sent' # <<>> /\ no_token_left(sent'[Len(sent')].text))
       /\ \A job \in Jobs :
              (daily_callback(job, TRUE) /\ live_unexpired(job)) =>
                  (sent' # <<>> /\ no_token_left(sent'[Len(sent')].text))]_vars

\* _daily_callback has delivered the text of a template that names every
\* token, {year} twice, and the other engine holds daily rows.
C22_Witness ==
    /\ sent # <<>>
    /\ reply = "returned"
    /\ last_sent.id \in DOMAIN schedules
    /\ \A tok \in RecognizedTokens : occurs(tok, schedules[last_sent.id].message)
    /\ last_sent.text = <<"2024-01-01", "00:01", "Monday", "January", "2024", "2024">>
    /\ ret.op = "add_daily_message"

\* C23: replacing the tokens one key after another gives the same text as a
\* single simultaneous pass over the five recognized tokens: what
\* _format_daily_message and _apply_templates deliver is the single-pass
\* rendering of the template at the local time they were given; unknown
\* placeholders stay verbatim, and a template without recognized tokens is
\* delivered unchanged.
C23_SequentialEqualsSinglePass ==
    [][/\ \A id \in 1..MaxRows :
              (send_scheduled_message(id) /\ scheduled_messages[id].message_type = "daily") =>
                  LET template == scheduled_messages[id].message_template
                      text == sent'[Len(sent')].text
                  IN  /\ text = render_single_pass(template, astimezone(now, msg_config(id).timezone))
                      /\ no_token_left(template) => text = template
                      /\ occurs(<<"{", "x", "}">>, template) => occurs(<<"{", "x", "}">>, text)
       /\ \A job \in Jobs :
              (daily_callback(job, TRUE) /\ live_unexpired(job)) =>
                  LET template == schedules[job.schedule_id].message
                      chat_id == schedules[job.schedule_id].chat_id
                      text == sent'[Len(sent')].text
                  IN  /\ text = render_single_pass(template, astimezone(now, get_chat_timezone(chat_id)))
                      /\ no_token_left(template) => text = template
                      /\ occurs(<<"{", "x", "}">>, template) => occurs(<<"{", "x", "}">>, text)]_vars

\* _format_daily_message has rendered, in a zone ahead of UTC, a template in
\* which {year} sits inside the letters of {date}; the other engine holds a
\* schedule whose template has an unknown placeholder.
C23_Witness ==
    /\ sent # <<>>
    /\ last_sent.text = <<"{", "d", "a", "2024", "t", "e", "}">>
    /\ last_sent.id \in 1..Len(scheduled_messages)
    /\ get_group_timezone(last_sent.chat_id) = "Europe/London"
    /\ reply = "scheduled"
    /\ \E id \in DOMAIN schedules : occurs(<<"{", "x", "}">>, schedules[id].message)

----------------------------------------------------------------------------
(* Claims about expiry, restarts and stopping *)

daily_ids(table) == {id \in DOMAIN table : table[id].schedule_type = "daily"}

\* C24: a daily schedule never expires on its own: a firing of
\* _daily_callback, delivered or not, leaves the row, active_jobs and the
\* job queue as they were, and a step after which a daily row or its
\* active_jobs entry is gone is a removeschedule of its id.
C24_DailyNeverExpires ==
    [][/\ \A job \in Jobs, delivered \in BOOLEAN :
              daily_callback(job, delivered) =>
                  /\ schedules' = schedules
                  /\ active_jobs' = active_jobs
                  /\ job_queue' = job_queue
       /\ \A id \in daily_ids(schedules) :
              /\ id \in DOMAIN active_jobs
              /\ (id \notin DOMAIN schedules' \/ id \notin DOMAIN active_jobs') =>
                    \E c \in ChatIds : removeschedule(c, id)]_vars

\* A daily schedule has failed to deliver on the second day and has gone
\* through a restart since; it is still stored and registered.
C24_Witness ==
    /\ sent # <<>>
    /\ ~last_sent.ok
    /\ last_sent.at >= DayLen
    /\ now > last_sent.at
    /\ phase = "constructed"
    /\ last_sent.id \in daily_ids(schedules)
    /\ last_sent.id \in DOMAIN active_jobs
    /\ active_jobs[last_sent.id] \in job_queue

\* The keys under which a step has logged a due evaluation.
newly_due == {key \in DOMAIN dueLog' : times_due(dueLog', key) > times_due(dueLog, key)}

\* C25: there is no catch-up firing: start() and a restart evaluate and
\* send nothing themselves, and a tick, the first one after start()
\* included, finds a schedule due only for the local minute current at that
\* tick, which is then the schedule's own time of day: a minute missed
\* while the process was down is never made up for.
C25_NoCatchUp ==
    [][/\ (start \/ process_restart) => (dueLog' = dueLog /\ sent' = sent)
       /\ check_and_send_messages =>
              \A key \in newly_due :
                  /\ key = due_key(key[1], now)
                  /\ key[3] = row_of(key).schedule_time.h
                  /\ key[4] = row_of(key).schedule_time.m]_vars

\* A schedule was found due on the first day; its minute of the second day
\* went by unevaluated, and the loop, started since, has ticked after it
\* without finding anything due or sending anything.
C25_Witness ==
    /\ running
    /\ last_tick >= DayLen + 2 * MinuteLen
    /\ sent = <<>>
    /\ \E key \in DOMAIN dueLog :
          /\ key[2] = 0
          /\ row_of(key).is_active
          /\ row_of(key).chat_id \in DOMAIN groups
          /\ groups[row_of(key).chat_id] = "UTC"
          /\ <<key[1], 1, key[3], key[4]>> \notin DOMAIN dueLog

\* C26: stopping the engine stops ticking: when stop() returns the thread
\* has left its loop (running is False and no tick job is pending) and the
\* stores are as they were; while the engine is stopped no tick runs and
\* nothing is found due or sent, and only start() or a restart of the
\* process sets it running again.
C26_StopStopsTicking ==
    [][/\ stop =>
              /\ ~running'
              /\ next_run' = NoJob
              /\ <<groups, scheduled_messages, schedules, chat_timezones>>'
                     = <<groups, scheduled_messages, schedules, chat_timezones>>
       /\ ~running =>
              /\ ~check_and_send_messages
              /\ dueLog' = dueLog
              /\ sent' = sent
              /\ next_run' # NoJob => (start \/ process_restart)
              /\ running' => (start \/ process_restart)]_vars

\* The engine had found a schedule due, was stopped, and the schedule's
\* minute of the second day has gone by with the engine still stopped.
C26_Witness ==
    /\ ~running
    /\ next_run = NoJob
    /\ now >= DayLen + 2 * MinuteLen
    /\ \E key \in DOMAIN dueLog :
          /\ key[2] = 0
          /\ row_of(key).is_active
          /\ groups[row_of(key).chat_id] = "UTC"
          /\ <<key[1], 1, key[3], key[4]>> \notin DOMAIN dueLog

\* C27: a tick that cannot read the store is skipped without crashing the
\* loop: it finds nothing due, sends nothing and writes nothing, the thread
\* keeps running with the next tick scheduled a minute on, and a tick whose
\* read succeeds takes its snapshot from the store as it then is, whatever
\* happened to the ticks before it.
C27_UnreadableTickIsSkipped ==
    [][/\ run_tick(FALSE) =>
              /\ dueLog' = dueLog
              /\ sent' = sent
              /\ last_snapshot' = {}
              /\ <<groups, scheduled_messages, ret>>' = <<groups, scheduled_messages, ret>>
              /\ running'
              /\ next_run' = now + MinuteLen
       /\ run_tick(TRUE) => last_snapshot' = listed(0)]_vars

\* A schedule found due on the first day is still listed, a tick has just
\* run in its minute of the second day and has read nothing, and the loop
\* is running with its next tick pending.
C27_Witness ==
    /\ running
    /\ last_tick = now
    /\ next_run = now + MinuteLen
    /\ last_snapshot = {}
    /\ \E key \in DOMAIN dueLog :
          /\ key[2] = 0
          /\ key[1] \in listed(0)
          /\ due_key(key[1], now) = <<key[1], 1, key[3], key[4]>>
          /\ should_send_message(msg_config(key[1]), now)
          /\ due_key(key[1], now) \notin DOMAIN dueLog

----------------------------------------------------------------------------
(* Claims about restoring and about countdowns *)

has_job(id) == id \in DOMAIN active_jobs \/ \E job \in job_queue : job.schedule_id = id

\* What the restore and status make of the rows that are not well-formed.
restore_and_status_step ==
    /\ bot_restart => schedules' = schedules
    /\ \A c \in ChatIds :
          status(c) =>
              /\ schedules' = schedules
              /\ \A id \in status_rows(schedules, c) :
                    ~well_formed(schedules[id]) =>
                        (id \in status_lines(schedules, c) /\ reply' = "schedules")

\* C28: a persisted record with an unparseable time string or an unknown
\* kind is skipped at restore time, not deleted: the restore registers no
\* job for it and leaves its row in the table, and status of its chat
\* lists it.
C28_MalformedRowSkippedNotDeleted ==
    /\ \A id \in DOMAIN schedules : ~well_formed(schedules[id]) => ~has_job(id)
    /\ [][restore_and_status_step]_vars

\* C29: a countdown fires on the day equal to end_date, and on that firing
\* _countdown_callback delivers a 'today' message that is not the
\* 'N days remaining' message of the days before and keeps the record; a
\* firing on a later day retires the record.
C29_TodayMessageOnEndDate ==
    [][\A job \in Jobs, delivered \in BOOLEAN :
          (/\ countdown_callback(job, delivered)
           /\ job.schedule_id \in DOMAIN schedules
           /\ schedules[job.schedule_id].schedule_type = "countdown") =>
              LET id == job.schedule_id
                  row == schedules[id]
                  today == local_date(astimezone(now, row.timezone))
              IN  /\ today < row.end_date_str.d =>
                        sent'[Len(sent')].text = countdown_text(row.end_date_str.d - today, row.message)
                  /\ today = row.end_date_str.d =>
                        /\ id \in DOMAIN schedules'
                        /\ sent' # <<>>
                        /\ sent'[Len(sent')].id = id
                        /\ sent'[Len(sent')].at = now
                        /\ ~Contains(sent'[Len(sent')].text, " remaining until ")
                  /\ today > row.end_date_str.d => id \notin DOMAIN schedules']_vars

\* C30: on the firing that retires an expired countdown the terminal
\* message is sent first and the record retired only then: the 'has ended'
\* message is attempted at every such firing, and the record is deleted and
\* deregistered only when that send has gone through.
C30_TerminalSendPrecedesRetire ==
    [][\A job \in Jobs, delivered \in BOOLEAN :
          (/\ countdown_callback(job, delivered)
           /\ job.schedule_id \in DOMAIN schedules
           /\ schedules[job.schedule_id].schedule_type = "countdown"
           /\ countdown_expired(schedules[job.schedule_id], now)) =>
              /\ sent' # <<>>
              /\ sent'[Len(sent')].id = job.schedule_id
              /\ sent'[Len(sent')].at = now
              /\ sent'[Len(sent')].text = ended_text(schedules[job.schedule_id].message)
              /\ (job.schedule_id \notin DOMAIN schedules' \/ job.schedule_id \notin DOMAIN active_jobs')
                    => sent'[Len(sent')].ok]_vars

----------------------------------------------------------------------------
(* Claims about removal, restore and the registry *)

\* C31: removal deregisters before it deletes, so in no state, the states
\* between the two writes of removeschedule included, is a job registered
\* under an id whose row is gone from the schedules table.
C31_DeregisterBeforeDelete ==
    /\ \A id \in DOMAIN active_jobs : id \in DOMAIN schedules
    /\ \A job \in job_queue : job.schedule_id \in DOMAIN schedules

removeschedule_step ==
    /\ \A c \in ChatIds, id \in 1..(MaxRows + 1) :
          removeschedule_delete(c, id) =>
             /\ reply' = removing(id, id \in DOMAIN schedules)
             /\ id \notin DOMAIN schedules => schedules' = schedules
    /\ removeschedule_cancel_job =>
          /\ reply' = "removed" <=> \E id \in 1..(MaxRows + 1) : reply = removing(id, TRUE)
          /\ reply' = "not found" <=> \E id \in 1..(MaxRows + 1) : reply = removing(id, FALSE)
          /\ reply' = "not found" => UNCHANGED <<schedules, active_jobs, job_queue>>

\* C32: the outcome of removeschedule depends only on the store.  Its DELETE
\* counts a row exactly when a row with that id existed, the reply is
\* "removed" exactly when the DELETE counted a row, whether or not a job was
\* registered for it, and a call that ends in "not found" leaves the
\* schedules table and the registry as they were.
C32_OutcomeDependsOnStore == [][removeschedule_step]_vars

\* The DELETE of removeschedule has counted row 1, for which no job is
\* registered: the record was skipped when the bot was constructed.
C32_Witness ==
    /\ reply = removing(1, TRUE)
    /\ active_jobs = EmptyMap
    /\ job_queue = {}
    /\ ENABLED removeschedule_cancel_job

update_returned_true(c) ==
    /\ ret = [op |-> "update_group_timezone", val |-> TRUE]
    /\ c \in DOMAIN groups

delivered_in(log, id, tz) ==
    \E i \in 1..Len(log) :
        /\ log[i].id = id
        /\ log[i].at = now
        /\ log[i].text = format_daily_message([row |-> scheduled_messages[id], timezone |-> tz], now)

tick_uses_new_timezone ==
    run_tick(TRUE) =>
        \A id \in 1..Len(scheduled_messages) :
            LET row == scheduled_messages[id]
                tz == groups[row.chat_id]
            IN  (/\ update_returned_true(row.chat_id)
                 /\ row.is_active
                 /\ should_send_message([row |-> row, timezone |-> tz], now))
                => /\ due_key(id, now) \in newly_due
                   /\ delivered_in(sent', id, tz)

\* C33: after update_group_timezone(c, tz) has returned True, a tick
\* evaluates every active schedule of c in tz and delivers each one that is
\* due at that local minute, rendered in tz.
C33_TicksUseNewTimezone == [][tick_uses_new_timezone]_vars

restorable(row) == well_formed(row) /\ row.timezone \in Zones

\* C34: restore isolates malformed records.  The constructor completes
\* whatever the table holds, and between handlers every row with a parseable
\* time, a known kind and a known timezone has its job registered, whatever
\* is wrong with the other rows.
C34_RestoreIsolatesMalformed ==
    /\ phase # "failed"
    /\ \A id \in DOMAIN schedules : restorable(schedules[id]) => has_job(id)

tick_finds_due_once ==
    check_and_send_messages =>
        \A key \in newly_due :
            msg_config(key[1]).timezone = "UTC" => times_due(dueLog', key) <= 1

\* C35: with update_group_timezone interleaved between ticks, no schedule is
\* found due twice for the same local (date, hour, minute), each tuple taken
\* in the group timezone in force at the tick that found it due.  The case
\* stated is the one that owes nothing to a clock change within one zone: a
\* tick made while the group is on UTC finds no schedule due for a local
\* minute for which an earlier tick has found it due already.
C35_AtMostOnceAcrossTimezoneChange == [][tick_finds_due_once]_vars

last_updated(c) ==
    /\ ret = [op |-> "update_group_timezone", val |-> TRUE]
    /\ DOMAIN groups = {c}

writes_group(c) == \E tz \in Zones : add_group(c, tz) \/ update_group_timezone(c, tz)

timezone_persists ==
    \A c \in ChatIds :
        (last_updated(c) /\ (add_group(c, "UTC") \/ ~writes_group(c)))
        => get_group_timezone(c)' = get_group_timezone(c)

\* C36: a chat's timezone setting persists.  Once update_group_timezone(c, tz)
\* has returned True, no step but another update_group_timezone(c, ...)
\* changes what get_group_timezone(c) returns: not the add_group(c, name) that
\* the start command issues for a chat already registered, which passes no
\* timezone, and not any operation on schedules or on other chats.
C36_TimezonePersists == [][timezone_persists]_vars

\* C37: between handlers and callbacks the registry of a constructed bot is
\* consistent with the store.  The keys of active_jobs are the ids of the rows
\* of the schedules table that have a parseable time and a known kind, and the
\* job queue holds one job for each of these ids, the one active_jobs holds,
\* and no other.
C37_RegistryMatchesStore ==
    phase \in {"constructed", "running"} =>
        /\ DOMAIN active_jobs = {id \in DOMAIN schedules : well_formed(schedules[id])}
        /\ job_queue = {active_jobs[id] : id \in DOMAIN active_jobs}
        /\ \A id \in DOMAIN active_jobs : active_jobs[id].schedule_id = id

\* Over a table restored with a malformed row 1 and a well-formed row 2,
\* removeschedule has removed row 2 and its job; row 1 stays without a job.
C37_Witness ==
    /\ phase = "running"
    /\ reply = "removed"
    /\ DOMAIN schedules = {1}
    /\ ~well_formed(schedules[1])
    /\ issued = {1, 2}
    /\ active_jobs = EmptyMap
    /\ job_queue = {}

removed(id) == id \in 1..Len(scheduled_messages) /\ ~scheduled_messages[id].is_active

tick_step ==
    /\ tick_snapshot => \A id \in last_snapshot' : ~removed(id)
    /\ tick_evaluate =>
          /\ \A key \in newly_due :
                /\ key[1] \in last_snapshot
                /\ times_due(dueLog', key) = times_due(dueLog, key) + 1
          /\ ~in_tick'
    /\ \A id \in 1..Len(scheduled_messages) : removed(id) => removed(id)'

\* C38: a schedule removed by remove_scheduled_message is in no snapshot
\* taken after the removal has returned, and a tick dispatches only rows of
\* its own snapshot, each at most once: a removed schedule is dispatched only
\* by the tick whose snapshot preceded the removal.
C38_RemovedNotDispatchedLater == [][tick_step]_vars

\* The scheduler thread holds a snapshot with row 1, due at the minute of the
\* snapshot, and remove_scheduled_message has removed row 1 since.
C38_Witness ==
    /\ in_tick
    /\ 1 \in last_snapshot
    /\ removed(1)
    /\ ret = [op |-> "remove_schedule", val |-> TRUE]
    /\ should_send_message(msg_config(1), last_tick)

\* C39: there is a single ticking worker.  Whatever the sequence of start()
\* and stop() calls, at most one thread executes _run_scheduler and at most
\* one tick job is registered; while the scheduler is running there is
\* exactly one of each, and a tick job has its next run set only then.
C39_SingleWorker ==
    /\ scheduler_threads <= 1
    /\ schedule_jobs <= 1
    /\ running <=> scheduler_threads = 1
    /\ running => schedule_jobs = 1
    /\ next_run # NoJob <=> running

\* The scheduler runs again after a stop(): an earlier run has ticked and
\* found a schedule due, the current one has not ticked yet.
C39_Witness ==
    /\ running
    /\ scheduler_threads = 1
    /\ schedule_jobs = 1
    /\ last_tick = NoJob
    /\ dueLog # EmptyMap

====
